---- MODULE Spec2Model ----
(***************************************************************************)
(* A model of the picc linker (src/picc/linker.py): the hole-list memory   *)
(* allocator, the section placer, the external symbol index, the           *)
(* relocation engine and the HEX assembler.                                *)
(***************************************************************************)
EXTENDS Integers, Sequences, FiniteSets, TLC

(***************************************************************************)
(* Bounds of the model.                                                    *)
(***************************************************************************)
\* capacity of the allocator exercised on its own
Capacity == 3
\* number of alloc calls made on that allocator
MaxCalls == 3
\* the processor record of the model: program memory, RAM and access bank
ProgMem == 4
Ram == 4
Access == 2
\* sections of the objects handed to the placer on its own
MaxSections == 2

\* Python's None, for an address (addresses are never negative)
None == -1

Max(a, b) == IF a >= b THEN a ELSE b
Min(a, b) == IF a <= b THEN a ELSE b
MinOf(S) == CHOOSE x \in S : \A y \in S : x <= y

RECURSIVE SumSizes(_)
SumSizes(runs) ==
    IF runs = <<>> THEN 0 ELSE Head(runs).size + SumSizes(Tail(runs))

(***************************************************************************)
(* _FreeMemory: a run of free bytes [start, start + size).                 *)
(***************************************************************************)
FreeMemory(start, size) == [start |-> start, size |-> size]

\* an intersection that is the whole of self
intersection_self(self, freemem) == <<self>>

\* _FreeMemory.intersection; <<>> stands for None, <<run>> for a run
intersection(self, freemem) ==
    LET self_end == self.start + self.size - 1
        freemem_end == freemem.start + freemem.size - 1
        start == Max(self.start, freemem.start)
        end == Min(self_end, freemem_end)
    IN  IF start > end THEN <<>>
        ELSE <<FreeMemory(start, end - start + 1)>>

\* substract with the upper residual one byte short
substract_short(self, freemem) ==
    LET freemem_end == freemem.start + freemem.size - 1
        self_end == self.start + self.size - 1
    IN  (IF freemem.start > self.start
            THEN <<FreeMemory(self.start, freemem.start - self.start)>>
            ELSE <<>>)
        \o (IF freemem_end < self_end
            THEN <<FreeMemory(freemem_end + 1, self_end - freemem_end - 1)>>
            ELSE <<>>)

\* substract with the residuals appended upper first
substract_swapped(self, freemem) ==
    LET freemem_end == freemem.start + freemem.size - 1
        self_end == self.start + self.size - 1
    IN  (IF freemem_end < self_end
            THEN <<FreeMemory(freemem_end + 1, self_end - freemem_end)>>
            ELSE <<>>)
        \o (IF freemem.start > self.start
            THEN <<FreeMemory(self.start, freemem.start - self.start)>>
            ELSE <<>>)

\* _FreeMemory.substract: the residual runs of self around freemem
substract(self, freemem) ==
    LET freemem_end == freemem.start + freemem.size - 1
        self_end == self.start + self.size - 1
    IN  (IF freemem.start > self.start
            THEN <<FreeMemory(self.start, freemem.start - self.start)>>
            ELSE <<>>)
        \o (IF freemem_end < self_end
            THEN <<FreeMemory(freemem_end + 1, self_end - freemem_end)>>
            ELSE <<>>)

\* contains that looks at the start address only
contains_start(self, freemem) ==
    LET self_end == self.start + self.size
    IN  freemem.start >= self.start /\ freemem.start < self_end

\* _FreeMemory.contains
contains(self, freemem) ==
    LET freemem_end == freemem.start + freemem.size
        self_end == self.start + self.size
    IN  freemem.start >= self.start /\ freemem_end <= self_end

(***************************************************************************)
(* _MemoryAllocator.  An allocator is its free list, a sequence of runs.   *)
(* alloc returns the address (or None) and the new free list.              *)
(***************************************************************************)
NewAllocator(size) == <<FreeMemory(0, size)>>

\* self.freemem[i:i + 1] = runs
ReplaceAt(freemem, i, runs) ==
    SubSeq(freemem, 1, i - 1) \o runs \o SubSeq(freemem, i + 1, Len(freemem))

\* the index at which a for loop over the free list breaks, 0 if it ends
FirstHole(S) == IF S = {} THEN 0 ELSE MinOf(S)

\* alloc(size, start, end): the bounded branch
AllocBounded(freemem, size, start, end) ==
    LET fits(i) ==
            LET newh == intersection(freemem[i], FreeMemory(start, end - start))
            IN  newh # <<>> /\ size <= newh[1].size
        i == FirstHole({k \in 1..Len(freemem) : fits(k)})
    IN  IF i = 0 THEN [address |-> None, freemem |-> freemem]
        ELSE LET h == freemem[i]
                 newh == intersection(h, FreeMemory(start, end - start))[1]
                 address == newh.start
             IN  [address |-> address,
                  freemem |-> ReplaceAt(freemem, i,
                                  substract(h, FreeMemory(address, size)))]

\* a pinned branch that, when no run contains the interval, still takes the
\* bytes from the run that holds the start address
AllocPinned_trimmed(freemem, size, start) ==
    LET i == FirstHole({k \in 1..Len(freemem) :
                            contains(freemem[k], FreeMemory(start, size))})
        j == FirstHole({k \in 1..Len(freemem) :
                            contains_start(freemem[k], FreeMemory(start, size))})
    IN  IF i = 0
        THEN [address |-> None,
              freemem |-> IF j = 0 THEN freemem
                          ELSE ReplaceAt(freemem, j,
                                   <<FreeMemory(freemem[j].start,
                                                start - freemem[j].start)>>)]
        ELSE [address |-> start,
              freemem |-> ReplaceAt(freemem, i,
                              substract(freemem[i], FreeMemory(start, size)))]

\* alloc(size, start): the pinned branch
AllocPinned(freemem, size, start) ==
    LET i == FirstHole({k \in 1..Len(freemem) :
                            contains(freemem[k], FreeMemory(start, size))})
    IN  IF i = 0 THEN [address |-> None, freemem |-> freemem]
        ELSE [address |-> start,
              freemem |-> ReplaceAt(freemem, i,
                              substract(freemem[i], FreeMemory(start, size)))]

\* the free-fit branch without the test that the hole is big enough
AllocFree_anyhole(freemem, size) ==
    IF freemem = <<>> THEN [address |-> None, freemem |-> freemem]
    ELSE LET h == freemem[1]
         IN  [address |-> h.start,
              freemem |-> [freemem EXCEPT
                              ![1] = FreeMemory(h.start + size, h.size - size)]]

\* alloc(size): the free-fit branch
AllocFree(freemem, size) ==
    LET i == FirstHole({k \in 1..Len(freemem) : size <= freemem[k].size})
    IN  IF i = 0 THEN [address |-> None, freemem |-> freemem]
        ELSE LET h == freemem[i]
             IN  [address |-> h.start,
                  freemem |-> [freemem EXCEPT
                                  ![i] = FreeMemory(h.start + size, h.size - size)]]

\* _MemoryAllocator.alloc; an absent start or end is None
alloc(freemem, size, start, end) ==
    IF start # None /\ end # None THEN AllocBounded(freemem, size, start, end)
    ELSE IF start # None THEN AllocPinned(freemem, size, start)
    ELSE AllocFree(freemem, size)

(***************************************************************************)
(* State.                                                                  *)
(***************************************************************************)
VARIABLES
    \* the allocator exercised on its own
    mem,        \* the free list of the allocator
    granted,    \* the calls that returned an address, ordered by address
    lastcall,   \* the last call and its result
    ncalls,     \* the number of calls made
    merged,     \* the free list of an allocator that merges adjacent runs
    \* a link
    objects,    \* the Coff objects, in input order
    lists,      \* the three lists of sections _allocsections makes
    codemem,    \* the free list of the program memory allocator
    datamem,    \* the free list of the data memory allocator
    err,        \* module error: what was printed and the errors counter
    requests,   \* the alloc calls the placer made, in order
    pc,         \* the stage the link is in
    idx,        \* position of the stage's loop
    run,        \* 1, or 2 when _allocsections runs again on the objects
    first,      \* what the first run of _allocsections left
    externals,  \* _getexternals: name -> the symbol bound to it
    symfiles,   \* _getexternals: name -> the file of that symbol
    undefset,   \* _applyrelocations: the names reported as undefined
    noteseen,   \* _applyrelocations: the note was printed
    hex,        \* what the HEX object was given, in order
    last,       \* the relocation processed last and what became of it
    crash,      \* the exception that ended the link, if one did
    \* readcoff
    stream,     \* the section headers of the file being read
    coffobj     \* the Coff being built and how far readcoff is

allocvars == <<mem, granted, lastcall, ncalls, merged>>
relocvars == <<externals, symfiles, undefset, noteseen, hex, last, crash>>
linkvars == <<objects, lists, codemem, datamem, err, requests, pc, idx, run, first,
              relocvars>>
decodevars == <<stream, coffobj>>
vars == <<allocvars, linkvars, decodevars>>

(***************************************************************************)
(* The allocator on its own: any sequence of alloc calls in the three      *)
(* modes on one allocator of capacity Capacity.                            *)
(***************************************************************************)
Sizes == 0..(Capacity + 1)
Addresses == 0..(Capacity + 1)

\* an allocator that merges runs even when bytes in between are taken
RECURSIVE Coalesce_gaps(_)
Coalesce_gaps(runs) ==
    IF Len(runs) < 2 THEN runs
    ELSE Coalesce_gaps(<<FreeMemory(runs[1].start,
                             runs[2].start + runs[2].size - runs[1].start)>>
                       \o SubSeq(runs, 3, Len(runs)))

\* the free list with every two adjacent runs merged into one
RECURSIVE Coalesce(_)
Coalesce(runs) ==
    IF Len(runs) < 2 THEN runs
    ELSE IF runs[1].start + runs[1].size = runs[2].start
    THEN Coalesce(<<FreeMemory(runs[1].start, runs[1].size + runs[2].size)>>
                  \o SubSeq(runs, 3, Len(runs)))
    ELSE <<runs[1]>> \o Coalesce(Tail(runs))

AllocInit ==
    /\ mem = NewAllocator(Capacity)
    /\ granted = <<>>
    /\ lastcall = [mode |-> "none", size |-> 0, address |-> None, merged |-> None]
    /\ ncalls = 0
    /\ merged = NewAllocator(Capacity)

\* the record of a granted interval, kept in address order (the order of the
\* calls is not part of the allocator's state)
Record(seq, g) ==
    LET n == Cardinality({i \in 1..Len(seq) :
                 \/ seq[i].address < g.address
                 \/ seq[i].address = g.address /\ seq[i].size <= g.size})
    IN  SubSeq(seq, 1, n) \o <<g>> \o SubSeq(seq, n + 1, Len(seq))

\* one call of alloc and the bookkeeping of what it returned; the same call
\* is made on the allocator that merges
Call(mode, size, start, end) ==
    LET r == alloc(mem, size, start, end)
        m == alloc(merged, size, start, end)
    IN  /\ ncalls < MaxCalls
        /\ mem' = r.freemem
        /\ granted' = IF r.address = None THEN granted
                      ELSE Record(granted, [address |-> r.address, size |-> size])
        /\ lastcall' = [mode |-> mode, size |-> size, address |-> r.address,
                        merged |-> m.address]
        /\ merged' = Coalesce(m.freemem)
        /\ ncalls' = ncalls + 1
        /\ UNCHANGED linkvars
        /\ UNCHANGED decodevars

CallFree == \E size \in Sizes : Call("free", size, None, None)

CallPinned == \E size \in Sizes, start \in Addresses :
    Call("pinned", size, start, None)

CallBounded == \E size \in Sizes, start \in Addresses, end \in Addresses :
    Call("bounded", size, start, end)


(***************************************************************************)
(* Module error: diagnostics go to stderr (err.log), errorf and errorfa    *)
(* count in the global errors.                                             *)
(***************************************************************************)
NoErrors == [log |-> <<>>, errors |-> 0]

\* error.errorf
errorf(e, filename, msg) ==
    [log |-> Append(e.log, [sev |-> "error", file |-> filename, msg |-> msg]),
     errors |-> e.errors + 1]

\* a warning that counts as an error
warnf_counted(e, filename, msg) ==
    [log |-> Append(e.log, [sev |-> "warning", file |-> filename, msg |-> msg]),
     errors |-> e.errors + 1]

\* error.warnf
warnf(e, filename, msg) ==
    [log |-> Append(e.log, [sev |-> "warning", file |-> filename, msg |-> msg]),
     errors |-> e.errors]

(***************************************************************************)
(* coff.Section.  flags is the set of the bits set in the flag word; usize *)
(* is the _size attribute, None when it was never set.                     *)
(***************************************************************************)
isabsolute(s) == "ABS" \in s.flags
iscode(s) == "TEXT" \in s.flags
isaccess(s) == "ACCESS" \in s.flags
isudata(s) == "BSS" \in s.flags
isprogramdata(s) == "DATA_ROM" \in s.flags

\* Section.size
Size(s) == IF s.usize # None THEN s.usize ELSE Len(s.data)

\* the Section readcoff builds from a section header it accepts: a udata
\* section gets the size attribute and no data, the others size bytes of data
ReadSection(name, paddr, size, flags, data, relocations) ==
    IF "BSS" \in flags
    THEN [name |-> name, paddress |-> paddr, flags |-> flags, usize |-> size,
          data |-> <<>>, relocations |-> <<>>]
    ELSE [name |-> name, paddress |-> paddr, flags |-> flags, usize |-> None,
          data |-> data, relocations |-> relocations]

\* for o in objects: for s in o.sections[1:], as (object, section) indexes
RECURSIVE SectionsFrom(_, _, _)
SectionsFrom(objs, o, k) ==
    IF o > Len(objs) THEN <<>>
    ELSE IF k > Len(objs[o].sections) THEN SectionsFrom(objs, o + 1, 1)
    ELSE <<(<<o, k>>)>> \o SectionsFrom(objs, o, k + 1)

AllSections == SectionsFrom(objects, 1, 1)
Sec(ref) == objects[ref[1]].sections[ref[2]]

(***************************************************************************)
(* _allocsections                                                          *)
(***************************************************************************)
\* _getallocator that sends program data to the data allocator
getallocator_codeonly(section) ==
    IF iscode(section) THEN "code"
    ELSE IF isudata(section) \/ isprogramdata(section) THEN "data"
    ELSE "none"

\* _getallocator: which allocator serves the section
getallocator(section) ==
    IF iscode(section) \/ isprogramdata(section) THEN "code"
    ELSE IF isudata(section) THEN "data"
    ELSE "none"

\* the three lists when the access bank is tested before ABS
Partition_accessfirst(objs) ==
    LET all == SectionsFrom(objs, 1, 1)
        sec(r) == objs[r[1]].sections[r[2]]
    IN  [absolute |-> SelectSeq(all, LAMBDA r : isabsolute(sec(r)) /\ ~isaccess(sec(r))),
         access |-> SelectSeq(all, LAMBDA r : isaccess(sec(r))),
         relocatable |-> SelectSeq(all,
                             LAMBDA r : ~isabsolute(sec(r)) /\ ~isaccess(sec(r)))]

\* the three lists _allocsections makes of the sections
Partition(objs) ==
    LET all == SectionsFrom(objs, 1, 1)
        sec(r) == objs[r[1]].sections[r[2]]
    IN  [absolute |-> SelectSeq(all, LAMBDA r : isabsolute(sec(r))),
         access |-> SelectSeq(all, LAMBDA r : ~isabsolute(sec(r)) /\ isaccess(sec(r))),
         relocatable |-> SelectSeq(all,
                             LAMBDA r : ~isabsolute(sec(r)) /\ ~isaccess(sec(r)))]

NoMemory(s) == <<"No target memory available for section", s.name>>

\* an alloc call made for section s, with what it returned and the paddress
\* s had when it was made
Request(ref, mode, which, s, address) ==
    [section |-> ref, mode |-> mode, allocator |-> which, size |-> Size(s),
     address |-> address, run |-> run, before |-> s.paddress]

\* the loop that runs after the loops before it are done: the first of the
\* remaining lists that is not empty, else _allocsections returns
LoopFrom(l, stage) ==
    IF stage = "absolute" /\ l.absolute # <<>> THEN "absolute"
    ELSE IF stage \in {"absolute", "access"} /\ l.access # <<>> THEN "access"
    ELSE IF stage # "return" /\ l.relocatable # <<>> THEN "relocatable"
    ELSE "externals"

\* the position after one more pass of the loop over list
AfterPass(list, following) ==
    /\ idx' = IF idx < Len(list) THEN idx + 1 ELSE 1
    /\ pc' = IF idx < Len(list) THEN pc ELSE LoopFrom(lists, following)

\* _allocsections is entered: it makes the three lists
EnterAllocSections ==
    /\ pc = "allocsections"
    /\ lists' = Partition(objects)
    /\ pc' = LoopFrom(Partition(objects), "absolute")
    /\ idx' = 1
    /\ UNCHANGED <<objects, codemem, datamem, err, requests, run, first>>
    /\ UNCHANGED relocvars
    /\ UNCHANGED allocvars
    /\ UNCHANGED decodevars

\* an absolute section whose allocation failed gets address 0
AbsoluteAddress_zeroed(s, address) == IF address = None THEN 0 ELSE s.paddress

\* the paddress of an absolute section after its allocation: as declared
AbsoluteAddress(s, address) == s.paddress

\* one pass of the loop over absolute_sections
AllocAbsolute ==
    /\ pc = "absolute"
    /\ LET ref == lists.absolute[idx]
           s == Sec(ref)
           which == getallocator(s)
           r == alloc(IF which = "code" THEN codemem ELSE datamem,
                      Size(s), s.paddress, None)
       IN  IF which = "none"
           THEN \* allocator is None: AttributeError
                /\ pc' = "crashed"
                /\ UNCHANGED <<objects, codemem, datamem, err, requests, idx>>
           ELSE /\ codemem' = IF which = "code" THEN r.freemem ELSE codemem
                /\ datamem' = IF which = "data" THEN r.freemem ELSE datamem
                /\ objects' = [objects EXCEPT ![ref[1]].sections[ref[2]].paddress =
                                   AbsoluteAddress(s, r.address)]
                /\ err' = IF r.address = None
                          THEN errorf(err, objects[ref[1]].filename, NoMemory(s))
                          ELSE err
                /\ requests' = Append(requests,
                                   Request(ref, "pinned", which, s, r.address))
                /\ AfterPass(lists.absolute, "access")
    /\ UNCHANGED <<lists, run, first>>
    /\ UNCHANGED relocvars
    /\ UNCHANGED allocvars
    /\ UNCHANGED decodevars

\* one pass of the loop over access_sections
AllocAccess ==
    /\ pc = "access"
    /\ LET ref == lists.access[idx]
           s == Sec(ref)
           r == alloc(datamem, Size(s), 0, Access)
       IN  /\ datamem' = r.freemem
           /\ objects' = [objects EXCEPT ![ref[1]].sections[ref[2]].paddress =
                              r.address]
           /\ err' = IF r.address = None
                     THEN errorf(err, objects[ref[1]].filename, NoMemory(s))
                     ELSE err
           /\ requests' = Append(requests,
                              Request(ref, "bounded", "data", s, r.address))
           /\ AfterPass(lists.access, "relocatable")
    /\ UNCHANGED <<lists, codemem, run, first>>
    /\ UNCHANGED relocvars
    /\ UNCHANGED allocvars
    /\ UNCHANGED decodevars

\* one pass of the loop over relocatable_sections
AllocRelocatable ==
    /\ pc = "relocatable"
    /\ LET ref == lists.relocatable[idx]
           s == Sec(ref)
           which == getallocator(s)
           r == alloc(IF which = "code" THEN codemem ELSE datamem,
                      Size(s), None, None)
       IN  IF which = "none"
           THEN /\ pc' = "crashed"
                /\ UNCHANGED <<objects, codemem, datamem, err, requests, idx>>
           ELSE /\ codemem' = IF which = "code" THEN r.freemem ELSE codemem
                /\ datamem' = IF which = "data" THEN r.freemem ELSE datamem
                /\ objects' = [objects EXCEPT ![ref[1]].sections[ref[2]].paddress =
                                   IF r.address = None THEN 0 ELSE r.address]
                /\ err' = IF r.address = None
                          THEN errorf(err, objects[ref[1]].filename, NoMemory(s))
                          ELSE err
                /\ requests' = Append(requests,
                                   Request(ref, "free", which, s, r.address))
                /\ AfterPass(lists.relocatable, "return")
    /\ UNCHANGED <<lists, run, first>>
    /\ UNCHANGED relocvars
    /\ UNCHANGED allocvars
    /\ UNCHANGED decodevars

\* what a run of _allocsections left: every paddress and what it printed
Paddresses == [i \in 1..Len(AllSections) |-> Sec(AllSections[i]).paddress]
Printed(from) == SubSeq(err.log, from + 1, Len(err.log))

\* _allocsections is called again on the same objects, as the first call
\* left them, with fresh allocators
Rerun ==
    /\ pc = "externals"
    /\ run = 1
    /\ run' = 2
    /\ first' = [paddress |-> Paddresses, log |-> err.log]
    /\ codemem' = NewAllocator(ProgMem)
    /\ datamem' = NewAllocator(Ram)
    /\ pc' = "allocsections"
    /\ idx' = 1
    /\ UNCHANGED <<objects, lists, err, requests>>
    /\ UNCHANGED relocvars
    /\ UNCHANGED allocvars
    /\ UNCHANGED decodevars

(***************************************************************************)
(* The placer on its own: _allocsections on objects of up to MaxSections   *)
(* sections, in one object or split over two, with fresh allocators.       *)
(***************************************************************************)
TypeFlags == {{"TEXT"}, {"BSS"}, {"DATA_ROM"}}
PlaceFlags ==
    {t \cup m : t \in TypeFlags, m \in {{}, {"ACCESS"}, {"ABS"}}}
        \cup {{"BSS", "ABS", "ACCESS"}}
SectionSizes == {2, 4}
DeclaredAddresses == {0, 2}

Zeroes(n) == [i \in 1..n |-> 0]

\* section headers as the decoder accepts them; sections that are not
\* absolute are declared at address 2
PlaceHeaders ==
    {[flags |-> f, paddr |-> a, size |-> n] :
        f \in PlaceFlags, a \in DeclaredAddresses, n \in SectionSizes}

PlaceSections ==
    {h \in PlaceHeaders : "ABS" \in h.flags \/ h.paddr = 2}

Object(filename, headers) ==
    [filename |-> filename,
     processor |-> "18f2550",
     sections |-> [k \in 1..Len(headers) |->
                      ReadSection(k, headers[k].paddr, headers[k].size,
                                  headers[k].flags, Zeroes(headers[k].size), <<>>)],
     symbols |-> <<>>]

\* three sections of size 2, one for each loop or more for one, in one
\* object or with the first in an object of its own
WaveFlags ==
    {{"BSS", "ABS"}, {"BSS", "ACCESS"}, {"BSS"}, {"TEXT"}, {"BSS", "ABS", "ACCESS"}}

WaveInputs ==
    {IF k = 3 THEN <<Object(1, hs)>>
     ELSE <<Object(1, SubSeq(hs, 1, 1)), Object(2, SubSeq(hs, 2, 3))>> :
        <<hs, k>> \in [1..3 -> {[flags |-> f, paddr |-> 2, size |-> 2] : f \in WaveFlags}]
                          \X {1, 3}}

SmallInputs ==
    {IF k = Len(hs) THEN <<Object(1, hs)>>
     ELSE <<Object(1, SubSeq(hs, 1, k)), Object(2, SubSeq(hs, k + 1, Len(hs)))>> :
        <<hs, k>> \in {p \in (UNION {[1..n -> PlaceSections] : n \in 1..MaxSections})
                                \X (1..MaxSections) : p[2] <= Len(p[1])}}

PlaceInputs == SmallInputs \cup WaveInputs

(***************************************************************************)
(* Module error, the rest: positional diagnostics and the fatal ones.      *)
(***************************************************************************)
\* error.errorfa
errorfa(e, filename, section, offset, msg) ==
    [log |-> Append(e.log, [sev |-> "error", file |-> filename,
                            section |-> section, offset |-> offset, msg |-> msg]),
     errors |-> e.errors + 1]

\* error.notefa
notefa(e, filename, section, offset, msg) ==
    [log |-> Append(e.log, [sev |-> "note", file |-> filename,
                            section |-> section, offset |-> offset, msg |-> msg]),
     errors |-> e.errors]

\* error.fatalf, what it prints
fatalf(e, filename, msg) ==
    [log |-> Append(e.log, [sev |-> "fatal", file |-> filename, msg |-> msg]),
     errors |-> e.errors]

\* error.fatal, what it prints
fatal(e, msg) ==
    [log |-> Append(e.log, [sev |-> "fatal", file |-> "picc", msg |-> msg]),
     errors |-> e.errors]

\* a fatal that returns to the stage that raised it
exit_returns(stage) == stage

\* sys.exit(1) in fatal and fatalf: where the link is after it
exit(stage) == "fatal"

(***************************************************************************)
(* coff.Symbol.  section is the section number of the symbol table entry:  *)
(* readcoff replaces a number above 0 by the Section, the others stay      *)
(* numbers.  Sections are numbered as in o.sections[1:].                   *)
(***************************************************************************)
C_EXT == 2
C_STAT == 3

isexternal(symbol) == symbol.storage_class = C_EXT
isdefined(symbol) == symbol.section > 0

Symbol(name, value, section, storage_class) ==
    [name |-> name, value |-> value, section |-> section,
     storage_class |-> storage_class]

\* coff.Relocation; symbol is the index r_symndx into the symbols of the object
Relocation(address, symbol, offset, reltype) ==
    [address |-> address, symbol |-> symbol, offset |-> offset,
     reltype |-> reltype]

\* coff.Coff
Coff(filename, processor, sections, symbols) ==
    [filename |-> filename, processor |-> processor, sections |-> sections,
     symbols |-> symbols]

\* for o in objects: for s in o.symbols, as (object, symbol) indexes
RECURSIVE SymbolsFrom(_, _, _)
SymbolsFrom(objs, o, k) ==
    IF o > Len(objs) THEN <<>>
    ELSE IF k > Len(objs[o].symbols) THEN SymbolsFrom(objs, o + 1, 1)
    ELSE <<(<<o, k>>)>> \o SymbolsFrom(objs, o, k + 1)

AllSymbols == SymbolsFrom(objects, 1, 1)
Sym(ref) == objects[ref[1]].symbols[ref[2]]

(***************************************************************************)
(* The patch functions of _RELOCT_DICT.  Python's x & (2^k - 1) is x mod   *)
(* 2^k also for negative x, x >> 8 is the floor of x / 256, int(x / 2)     *)
(* rounds towards zero.                                                    *)
(***************************************************************************)
RECURSIVE BitOr(_, _)
BitOr(a, b) ==
    IF a = 0 THEN b
    ELSE IF b = 0 THEN a
    ELSE (IF a % 2 = 1 \/ b % 2 = 1 THEN 1 ELSE 0) + 2 * BitOr(a \div 2, b \div 2)

\* int(x / 2)
IntHalf(x) == IF x >= 0 THEN x \div 2 ELSE -((-x) \div 2)

\* x >> 8
Shr8(x) == x \div 256

\* opcode & 0xfeff
ClearBit8(opcode) == IF (opcode \div 256) % 2 = 1 THEN opcode - 256 ELSE opcode

Implemented == {1, 2, 10, 14, 15, 16, 17, 18, 19, 20, 22}
Unimplemented == (1..32) \ Implemented

\* _RelocationContext, with its two properties: the opcode is the word at
\* offset, None when fewer than two bytes are there (struct.error); the
\* address is None when the section has no address (TypeError)
RelocationContext(filename, section, offset, value) ==
    [filename |-> filename, section |-> section, offset |-> offset,
     value |-> value,
     opcode |-> IF offset + 2 <= Len(section.data)
                THEN section.data[offset + 1] + 256 * section.data[offset + 2]
                ELSE None,
     address |-> IF section.paddress = None THEN None
                 ELSE section.paddress + offset]

Patched(opcode) == [opcode |-> opcode, error |-> <<>>]

bra_rcall_patch(c) ==
    LET offset == IntHalf(c.value - c.address - 2)
    IN  IF offset < -1024 \/ offset > 1023
        THEN [opcode |-> c.opcode, error |-> <<"relative jump too long">>]
        ELSE Patched(BitOr(c.opcode, offset % 2048))

\* a conditional branch that takes the range of bra and rcall
condbra_patch_wide(c) ==
    LET offset == IntHalf(c.value - c.address - 2)
    IN  IF offset < -1024 \/ offset > 1023
        THEN [opcode |-> c.opcode, error |-> <<"conditional branch too long">>]
        ELSE Patched(BitOr(c.opcode, offset % 256))

condbra_patch(c) ==
    LET offset == IntHalf(c.value - c.address - 2)
    IN  IF offset < -128 \/ offset > 127
        THEN [opcode |-> c.opcode, error |-> <<"conditional branch too long">>]
        ELSE Patched(BitOr(c.opcode, offset % 256))

\* _RELOCT_DICT[reltype](c) for the types that patch
RELOCT_DICT(reltype, c) ==
    CASE reltype \in {1, 2} -> Patched(BitOr(c.opcode, IntHalf(c.value) % 256))
      [] reltype = 10 -> Patched(BitOr(c.opcode, c.value % 256))
      [] reltype = 14 -> Patched(BitOr(c.opcode, Shr8(IntHalf(c.value)) % 4096))
      [] reltype \in {15, 16} -> Patched(BitOr(c.opcode, c.value % 4096))
      [] reltype = 17 -> Patched(BitOr(c.opcode, Shr8(c.value) % 16))
      [] reltype = 18 -> Patched(BitOr(c.opcode, c.value % 256))
      [] reltype = 19 -> bra_rcall_patch(c)
      [] reltype = 20 -> condbra_patch(c)
      [] reltype = 22 -> Patched(IF c.value < Access THEN ClearBit8(c.opcode)
                                 ELSE BitOr(c.opcode, 256))

\* the word stored with its high byte first
Pack_swapped(data, address, word) ==
    [data EXCEPT ![address + 1] = word \div 256, ![address + 2] = word % 256]

\* s.data[address:address + 2] = struct.pack('=H', word)
Pack(data, address, word) ==
    [data EXCEPT ![address + 1] = word % 256, ![address + 2] = word \div 256]

(***************************************************************************)
(* link, up to _allocsections.                                             *)
(***************************************************************************)
\* the processors the catalogue has a record of
Catalogue == {"18f2550"}

\* the warnings for the objects after the first
RECURSIVE Mismatches(_, _, _)
Mismatches(e, objs, k) ==
    IF k > Len(objs) THEN e
    ELSE Mismatches(IF objs[k].processor # objs[1].processor
                    THEN warnf(e, objs[k].filename, <<"processor mismatch">>)
                    ELSE e,
                    objs, k + 1)

LinkStart ==
    /\ pc = "link"
    /\ LET processor == objects[1].processor
           warned == Mismatches(err, objects, 2)
       IN  IF processor \in Catalogue
           THEN /\ err' = warned
                /\ codemem' = NewAllocator(ProgMem)
                /\ datamem' = NewAllocator(Ram)
                /\ pc' = "allocsections"
           ELSE /\ err' = fatal(warned, <<"info from processor not found", processor>>)
                /\ pc' = exit("allocsections")
                /\ UNCHANGED <<codemem, datamem>>
    /\ UNCHANGED <<objects, lists, requests, idx, run, first>>
    /\ UNCHANGED relocvars
    /\ UNCHANGED allocvars
    /\ UNCHANGED decodevars

(***************************************************************************)
(* _getexternals                                                           *)
(***************************************************************************)
\* a dictionary where the last definition of a name replaces the others
bind_last(dict, name, what) ==
    [n \in DOMAIN dict \cup {name} |-> IF n = name THEN what ELSE dict[n]]

\* externals[s.name] = s, made only when the name is not in externals
bind(dict, name, what) ==
    IF name \in DOMAIN dict THEN dict
    ELSE [n \in DOMAIN dict \cup {name} |-> IF n = name THEN what ELSE dict[n]]

Duplicate(name, f) == <<"duplicate symbol", name, f>>

\* one pass of the loops over the symbols, or their end
GetExternals ==
    /\ pc = "externals"
    /\ IF idx > Len(AllSymbols)
       THEN /\ pc' = "relocations"
            /\ idx' = 1
            /\ UNCHANGED <<externals, symfiles, err>>
       ELSE LET ref == AllSymbols[idx]
                s == Sym(ref)
                o == objects[ref[1]]
            IN  /\ idx' = idx + 1
                /\ pc' = pc
                /\ IF isexternal(s) /\ isdefined(s)
                   THEN /\ externals' = bind(externals, s.name, ref)
                        /\ symfiles' = bind(symfiles, s.name, o.filename)
                        /\ err' = IF s.name \in DOMAIN externals
                                  THEN errorf(err, o.filename,
                                              Duplicate(s.name, symfiles[s.name]))
                                  ELSE err
                   ELSE UNCHANGED <<externals, symfiles, err>>
    /\ UNCHANGED <<objects, lists, codemem, datamem, requests, run, first>>
    /\ UNCHANGED <<undefset, noteseen, hex, last, crash>>
    /\ UNCHANGED allocvars
    /\ UNCHANGED decodevars
(***************************************************************************)
(* _applyrelocations                                                       *)
(***************************************************************************)
\* the relocations of the sections of code_sections, as (object, section,
\* relocation) indexes
RECURSIVE RelocsFrom(_, _, _, _)
RelocsFrom(objs, o, k, j) ==
    IF o > Len(objs) THEN <<>>
    ELSE IF k > Len(objs[o].sections) THEN RelocsFrom(objs, o + 1, 1, 1)
    ELSE IF ~iscode(objs[o].sections[k])
            \/ j > Len(objs[o].sections[k].relocations)
         THEN RelocsFrom(objs, o, k + 1, 1)
    ELSE <<(<<o, k, j>>)>> \o RelocsFrom(objs, o, k, j + 1)

CodeRelocs == RelocsFrom(objects, 1, 1, 1)

\* a set of reported names that forgets the name
Reported_forgotten(names, name) == names

\* undefset.add(symbol.name)
Reported(names, name) == names \cup {name}

NoLast ==
    [ref |-> <<0, 0, 0>>, outcome |-> "none", reltype |-> 0, before |-> <<>>,
     value |-> 0, opcode |-> 0, address |-> 0, word |-> 0]
NoCrash == [why |-> "none", section |-> <<0, 0>>]

\* a value that leaves the offset of the relocation out
EffectiveValue_nooffset(symbol, r, base) == symbol.value + base

\* value = symbol.value + r.offset, and value += symbol.section.paddress
\* when the section is not absolute (base is 0 when it is)
EffectiveValue(symbol, r, base) == symbol.value + r.offset + base

\* what the body of the loop does with the relocation ref
Relocate(ref) ==
    LET o == objects[ref[1]]
        s == o.sections[ref[2]]
        r == s.relocations[ref[3]]
        own == o.symbols[r.symbol]
        symref == IF isdefined(own) THEN <<ref[1], r.symbol>>
                  ELSE externals[own.name]
        symbol == Sym(symref)
        symsec == <<symref[1], symbol.section>>
        base == IF isabsolute(Sec(symsec)) THEN 0 ELSE Sec(symsec).paddress
        value == EffectiveValue(symbol, r, base)
        c == RelocationContext(o.filename, s, r.address, value)
        p == RELOCT_DICT(r.reltype, c)
        reported == errorfa(err, o.filename, s.name, r.address,
                            <<"undefined symbol", own.name>>)
        same == [pc |-> pc, err |-> err, data |-> s.data, undefset |-> undefset,
                 noteseen |-> noteseen, crash |-> crash,
                 last |-> [NoLast EXCEPT !.ref = ref, !.reltype = r.reltype,
                                         !.before = s.data]]
        crashed(why, section) ==
            [same EXCEPT !.pc = "crashed", !.last.outcome = "crashed",
                         !.crash = [why |-> why, section |-> section]]
    IN  IF ~isdefined(own) /\ own.name \notin DOMAIN externals
        THEN IF own.name \in undefset
             THEN [same EXCEPT !.last.outcome = "undefined"]
             ELSE [same EXCEPT
                     !.last.outcome = "undefined",
                     !.undefset = Reported(undefset, own.name),
                     !.noteseen = TRUE,
                     !.err = IF noteseen THEN reported
                             ELSE notefa(reported, o.filename, s.name, r.address,
                                    <<"each undefined symbol is reported only once">>)]
        ELSE IF base = None
        THEN \* value += symbol.section.paddress: TypeError
             crashed("TypeError", symsec)
        ELSE IF r.reltype \notin 1..32
        THEN \* _RELOCT_DICT[r.reltype]: KeyError
             [crashed("KeyError", <<ref[1], ref[2]>>) EXCEPT !.last.value = value]
        ELSE IF r.reltype \in Unimplemented
        THEN [same EXCEPT
                !.pc = exit(pc),
                !.err = fatalf(err, o.filename,
                               <<"unimplemented relocation", r.reltype>>),
                !.last.outcome = "fatal", !.last.value = value]
        ELSE IF c.opcode = None
        THEN \* struct.unpack of fewer than two bytes: struct.error
             [crashed("struct.error", <<ref[1], ref[2]>>) EXCEPT !.last.value = value]
        ELSE IF r.reltype \in {19, 20} /\ c.address = None
        THEN \* self.section.paddress + self.offset: TypeError
             [crashed("TypeError", <<ref[1], ref[2]>>) EXCEPT
                !.last.value = value, !.last.opcode = c.opcode]
        ELSE IF p.opcode \notin 0..65535
        THEN \* struct.pack('=H', ...) of a number that is no 16 bit word
             [crashed("struct.error", <<ref[1], ref[2]>>) EXCEPT !.last.value = value]
        ELSE [same EXCEPT
                !.data = Pack(s.data, r.address, p.opcode),
                !.err = IF p.error = <<>> THEN err
                        ELSE errorfa(err, o.filename, s.name, r.address, p.error),
                !.last.outcome = "patched", !.last.value = value,
                !.last.opcode = c.opcode,
                !.last.address = IF c.address = None THEN 0 ELSE c.address,
                !.last.word = p.opcode]

\* one pass of the loops over the relocations of the code sections, or
\* their end
ApplyRelocation ==
    /\ pc = "relocations"
    /\ IF idx > Len(CodeRelocs)
       THEN /\ pc' = "buildhex"
            /\ idx' = 1
            /\ UNCHANGED <<objects, err, undefset, noteseen, last, crash>>
       ELSE LET ref == CodeRelocs[idx]
                e == Relocate(ref)
            IN  /\ pc' = e.pc
                /\ idx' = IF e.pc = pc THEN idx + 1 ELSE idx
                /\ objects' = [objects EXCEPT ![ref[1]].sections[ref[2]].data = e.data]
                /\ err' = e.err
                /\ undefset' = e.undefset
                /\ noteseen' = e.noteseen
                /\ last' = e.last
                /\ crash' = e.crash
    /\ UNCHANGED <<lists, codemem, datamem, requests, run, first>>
    /\ UNCHANGED <<externals, symfiles, hex>>
    /\ UNCHANGED allocvars
    /\ UNCHANGED decodevars

(***************************************************************************)
(* _buildhex                                                               *)
(***************************************************************************)
\* the sections _buildhex gives to the HEX object
HexSections ==
    SelectSeq(AllSections, LAMBDA ref : iscode(Sec(ref)) \/ isprogramdata(Sec(ref)))

\* one pass of the loops over the sections, or their end: link returns
BuildHex ==
    /\ pc = "buildhex"
    /\ IF idx > Len(HexSections)
       THEN /\ pc' = "done"
            /\ idx' = 1
            /\ UNCHANGED <<hex, crash>>
       ELSE LET ref == HexSections[idx]
                s == Sec(ref)
            IN  IF s.paddress = None /\ s.data # <<>>
                THEN \* ih.puts(None, data): TypeError
                     /\ pc' = "crashed"
                     /\ crash' = [why |-> "TypeError", section |-> ref]
                     /\ UNCHANGED <<hex, idx>>
                ELSE /\ hex' = Append(hex, [address |-> s.paddress, data |-> s.data])
                     /\ idx' = idx + 1
                     /\ pc' = pc
                     /\ UNCHANGED crash
    /\ UNCHANGED <<objects, lists, codemem, datamem, err, requests, run, first>>
    /\ UNCHANGED <<externals, symfiles, undefset, noteseen, last>>
    /\ UNCHANGED allocvars
    /\ UNCHANGED decodevars

RelocIdle ==
    /\ externals = <<>>
    /\ symfiles = <<>>
    /\ undefset = {}
    /\ noteseen = FALSE
    /\ hex = <<>>
    /\ last = NoLast
    /\ crash = NoCrash

(***************************************************************************)
(* readcoff, the loop over the section headers.  A header is the flag      *)
(* word, as the set of the flags of _STYP_FLAGS set in it, the address and *)
(* the size; the file has the data the header announces.                   *)
(***************************************************************************)
StypFlags == {"TEXT", "BSS", "DATA_ROM", "ACCESS", "ABS"}
SectionTypes == {"TEXT", "BSS", "DATA_ROM"}
HeaderSizes == {1, 2}

Headers ==
    {[flags |-> f, paddr |-> 0, size |-> n] : f \in SUBSET StypFlags, n \in HeaderSizes}

\* the files read: one or two section headers
Streams == UNION {[1..n -> Headers] : n \in 1..2}

\* the header is one readcoff makes a section of: it is udata, or code or
\* program data
Accepted(flags) == "BSS" \in flags \/ "TEXT" \in flags \/ "DATA_ROM" \in flags

\* one pass of the loop over the section headers, or its end: the symbols
\* are patched and the object is returned
ReadHeader ==
    /\ coffobj.state = "sections"
    /\ LET k == Len(coffobj.sections) + 1
       IN  IF k > Len(stream)
           THEN coffobj' = [coffobj EXCEPT !.state = "read"]
           ELSE LET h == stream[k]
                IN  IF "TEXT" \in h.flags /\ h.size % 2 # 0
                    THEN coffobj' = [coffobj EXCEPT
                            !.state = exit("sections"),
                            !.log = <<"code section data size must be multiple of 2", k>>]
                    ELSE IF Accepted(h.flags)
                    THEN coffobj' = [coffobj EXCEPT
                            !.sections = Append(@, ReadSection(k, h.paddr, h.size,
                                                    h.flags, Zeroes(h.size), <<>>))]
                    ELSE coffobj' = [coffobj EXCEPT
                            !.state = exit("sections"),
                            !.log = <<"unimplemented section type", k>>]
    /\ UNCHANGED stream
    /\ UNCHANGED linkvars
    /\ UNCHANGED allocvars

DecodeIdle ==
    /\ stream = <<>>
    /\ coffobj = [sections |-> <<>>, state |-> "idle", log |-> <<>>]
(***************************************************************************)
(* The objects given to link.  Four families, each of objects the decoder  *)
(* can produce: symbols defined, undefined and defined twice; one          *)
(* relocation of every type on every kind of value; sections of every      *)
(* kind in memories they may not fit in; objects for several processors.   *)
(***************************************************************************)
Names == {"X", "Y"}

\* two objects of one code section, each with two symbols and a relocation
\* on each of them, the second with an offset; every symbol has a value of
\* its own
SymbolKinds ==
    {Symbol(n, 0, 1, C_EXT) : n \in Names}
        \cup {Symbol(n, 0, 0, C_EXT) : n \in Names}
        \cup {Symbol("X", 0, 1, C_STAT)}

SymbolObject(filename, symbols) ==
    Coff(filename, "18f2550",
         <<ReadSection(1, 0, 2, {"TEXT"}, Zeroes(2),
                       <<Relocation(0, 1, 0, 10), Relocation(0, 2, -2, 10)>>)>>,
         [k \in DOMAIN symbols |->
             [symbols[k] EXCEPT !.value = 16 * filename + 4 * k]])

SymbolInputs ==
    {<<SymbolObject(1, a), SymbolObject(2, b)>> :
        a \in [1..2 -> SymbolKinds], b \in [1..2 -> SymbolKinds]}

\* one object of one code section of two words, with a relocation of the
\* type on one word and one of type 10 after it
RelocTypes == 0..33
RelocAddresses == {0, 1, 2, 4}
RelocOffsets == {-3000, -2, 0}
SymbolValues == {0, 1, 300, 3000}
Words == {<<0, 0>>, <<240, 209>>}

RelocInputs ==
    {<<Coff(1, "18f2550",
            <<ReadSection(1, 0, 4, {"TEXT"}, w \o w,
                          <<Relocation(a, 1, d, t),
                            Relocation(IF a = 0 THEN 2 ELSE 0, 1, 0, 10)>>)>>,
            <<Symbol("X", v, 1, C_STAT)>>)>> :
        t \in RelocTypes, a \in RelocAddresses, d \in RelocOffsets,
        v \in SymbolValues, w \in Words}

\* one object of one or two sections of any kind, a symbol in one of them
\* and a relocation on it in every code section
PlacedTypes == {3, 10, 19}

PlacedSection(k, h, t) ==
    ReadSection(k, h.paddr, h.size, h.flags, Zeroes(h.size),
                <<Relocation(0, 1, 0, t)>>)

PlacedInputs ==
    {<<Coff(1, "18f2550",
            [k \in 1..Len(hs) |-> PlacedSection(k, hs[k], t)],
            <<Symbol("X", 0, n, C_EXT)>>)>> :
        <<hs, n, t>> \in {q \in (UNION {[1..m -> PlaceSections] : m \in 1..2})
                                  \X (1..2) \X PlacedTypes : q[2] <= Len(q[1])}}

\* two objects, each for a processor of the catalogue or for another; the
\* section of the second does not fit after the section of the first
Processors == {"18f2550", "18f26j13"}

ProcessorInputs ==
    {<<Coff(1, p, <<ReadSection(1, 0, 2, {"TEXT"}, Zeroes(2), <<>>)>>, <<>>),
       Coff(2, q, <<ReadSection(1, 0, 4, {"DATA_ROM"}, Zeroes(4), <<>>)>>, <<>>)>> :
        p \in Processors, q \in Processors}

LinkInputs == SymbolInputs \cup RelocInputs \cup PlacedInputs \cup ProcessorInputs

AllocIdle ==
    /\ mem = <<>>
    /\ granted = <<>>
    /\ lastcall = [mode |-> "none", size |-> 0, address |-> None, merged |-> None]
    /\ ncalls = 0
    /\ merged = <<>>

LinkIdle ==
    /\ objects = <<>>
    /\ lists = [absolute |-> <<>>, access |-> <<>>, relocatable |-> <<>>]
    /\ codemem = <<>>
    /\ datamem = <<>>
    /\ err = NoErrors
    /\ requests = <<>>
    /\ pc = "idle"
    /\ idx = 1
    /\ run = 1
    /\ first = [paddress |-> <<>>, log |-> <<>>]
    /\ RelocIdle

InitPlace ==
    /\ AllocIdle
    /\ objects \in PlaceInputs
    /\ lists = [absolute |-> <<>>, access |-> <<>>, relocatable |-> <<>>]
    /\ codemem = NewAllocator(ProgMem)
    /\ datamem = NewAllocator(Ram)
    /\ err = NoErrors
    /\ requests = <<>>
    /\ pc = "allocsections"
    /\ idx = 1
    /\ run = 1
    /\ first = [paddress |-> <<>>, log |-> <<>>]
    /\ RelocIdle
    /\ DecodeIdle

InitLink ==
    /\ AllocIdle
    /\ objects \in LinkInputs
    /\ lists = [absolute |-> <<>>, access |-> <<>>, relocatable |-> <<>>]
    /\ codemem = <<>>
    /\ datamem = <<>>
    /\ err = NoErrors
    /\ requests = <<>>
    /\ pc = "link"
    /\ idx = 1
    /\ run = 1
    /\ first = [paddress |-> <<>>, log |-> <<>>]
    /\ RelocIdle
    /\ DecodeIdle

InitDecode ==
    /\ AllocIdle
    /\ LinkIdle
    /\ stream \in Streams
    /\ coffobj = [sections |-> <<>>, state |-> "sections", log |-> <<>>]

NextDecode == ReadHeader

NextLink ==
    \/ LinkStart
    \/ EnterAllocSections
    \/ AllocAbsolute
    \/ AllocAccess
    \/ AllocRelocatable
    \/ GetExternals
    \/ ApplyRelocation
    \/ BuildHex

NextPlace ==
    \/ EnterAllocSections
    \/ AllocAbsolute
    \/ AllocAccess
    \/ AllocRelocatable
    \/ Rerun

Init == AllocInit /\ LinkIdle /\ DecodeIdle

Next == CallFree \/ CallPinned \/ CallBounded

Spec == Init /\ [][Next]_vars

SpecPlace == InitPlace /\ [][NextPlace]_vars

SpecLink == InitLink /\ [][NextLink]_vars

SpecDecode == InitDecode /\ [][NextDecode]_vars

(***************************************************************************)
(* Properties of the allocator.                                            *)
(***************************************************************************)
Disjoint(a, b) == a.address + a.size <= b.address \/ b.address + b.size <= a.address

\* C1: the intervals of all calls that returned an address are pairwise
\* disjoint and each lies within [0, Capacity).
C1_NonOverlap ==
    /\ \A i \in 1..Len(granted) :
          granted[i].address >= 0 /\ granted[i].address + granted[i].size <= Capacity
    /\ \A i, j \in 1..Len(granted) : i # j => Disjoint(granted[i], granted[j])

\* three calls of three modes have each returned a non-empty interval
C1_Witness ==
    /\ Len(granted) = 3
    /\ \A i \in 1..3 : granted[i].size > 0
    /\ lastcall.mode = "bounded" /\ lastcall.address # None

\* C2: the sizes of the free runs plus the sizes of the granted allocations
\* add up to the capacity.
C2_Conservation == SumSizes(mem) + SumSizes(granted) = Capacity

\* a pinned call split a run in two and memory is partly granted
C2_Witness ==
    /\ lastcall.mode = "pinned" /\ lastcall.address # None
    /\ \E i \in 1..(Len(mem) - 1) :
          /\ mem[i].size > 0 /\ mem[i + 1].size > 0
          /\ mem[i].start + mem[i].size = lastcall.address
          /\ mem[i + 1].start = lastcall.address + lastcall.size
    /\ SumSizes(granted) > 0 /\ SumSizes(mem) > 0

\* C3: after every call the free list is sorted by start and no two of its
\* runs overlap.
C3_SortedNoOverlap ==
    \A i, j \in 1..Len(mem) : i < j =>
        /\ mem[i].start <= mem[j].start
        /\ mem[i].start + mem[i].size <= mem[j].start

\* a failed call on a free list of several runs
C3_Witness ==
    /\ lastcall.mode # "none" /\ lastcall.address = None
    /\ Len(mem) >= 3
(***************************************************************************)
(* Properties of the placer.                                               *)
(***************************************************************************)
Returned == pc = "externals"

\* the requests of the current run of _allocsections
Current == SelectSeq(requests, LAMBDA q : q.run = run)

CapacityOf(which) == IF which = "code" THEN ProgMem ELSE Ram

C5_Deterministic ==
    (Returned /\ run = 2) =>
        /\ Paddresses = first.paddress
        /\ Printed(Len(first.log)) = first.log

\* the second run returned, having placed an access-bank section and
\* refused another section, as the first did
C5_Witness ==
    /\ Returned /\ run = 2
    /\ first.log # <<>>
    /\ \E i, j \in 1..Len(Current) :
          /\ Current[i].mode = "bounded" /\ Current[i].address # None
          /\ Current[j].mode = "pinned" /\ Current[j].address = None

(***************************************************************************)
(* The link: what is printed, the external symbols, fatal diagnostics.     *)
(***************************************************************************)
Log == 1..Len(err.log)
IsUndefined(i, name) ==
    /\ err.log[i].sev = "error"
    /\ err.log[i].msg[1] = "undefined symbol"
    /\ err.log[i].msg[2] = name
IsUndefinedAny(i) == \E name \in Names : IsUndefined(i, name)
IsNote(i) == err.log[i].sev = "note"

\* the relocations of the code sections on a symbol that is not defined in
\* its object and has that name
ReferencesTo(name) ==
    {i \in 1..Len(CodeRelocs) :
        LET ref == CodeRelocs[i]
            o == objects[ref[1]]
            own == o.symbols[o.sections[ref[2]].relocations[ref[3]].symbol]
        IN  own.name = name /\ ~isdefined(own)}

\* C6: in one link every name has at most one 'undefined symbol' error,
\* however many relocations refer to it, and the note 'each undefined symbol
\* is reported only once' is printed at most once, right after the first
\* undefined symbol error and whenever there is one
C6_UndefinedOnce ==
    /\ \A name \in Names : Cardinality({i \in Log : IsUndefined(i, name)}) <= 1
    /\ Cardinality({i \in Log : IsNote(i)}) <= 1
    /\ \A i \in Log : IsNote(i) =>
           /\ i > 1
           /\ IsUndefinedAny(i - 1)
           /\ \A j \in 1..(i - 2) : ~IsUndefinedAny(j)
    /\ (\E i \in Log : IsUndefinedAny(i)) => \E i \in Log : IsNote(i)

\* a link that ran to its end where three relocations, in two objects, refer
\* to the undefined X, and another name is undefined as well
C6_Witness ==
    /\ pc = "done"
    /\ Cardinality(ReferencesTo("X")) >= 3
    /\ \E i, j \in ReferencesTo("X") : CodeRelocs[i][1] # CodeRelocs[j][1]
    /\ undefset = {"X", "Y"}

\* _getexternals has returned
ExternalsBuilt == pc \in {"relocations", "buildhex", "done"}

\* the symbols that are external and defined, in object then symbol order
Definitions ==
    SelectSeq(AllSymbols, LAMBDA ref : isexternal(Sym(ref)) /\ isdefined(Sym(ref)))
FirstDefinition(name) ==
    Definitions[MinOf({i \in 1..Len(Definitions) : Sym(Definitions[i]).name = name})]
LaterDefinitions ==
    SelectSeq(Definitions, LAMBDA ref : ref # FirstDefinition(Sym(ref).name))
IsDuplicate(e) == e.sev = "error" /\ e.msg[1] = "duplicate symbol"

\* C7: _getexternals binds every name to its first external defined symbol
\* in object then symbol order, and prints for every later one exactly one
\* 'duplicate symbol' error with the file of the first definition
C7_FirstBinding ==
    ExternalsBuilt =>
        /\ DOMAIN externals = {Sym(Definitions[i]).name : i \in 1..Len(Definitions)}
        /\ \A name \in DOMAIN externals :
               /\ externals[name] = FirstDefinition(name)
               /\ symfiles[name] = objects[FirstDefinition(name)[1]].filename
        /\ SelectSeq(err.log, IsDuplicate) =
               [i \in 1..Len(LaterDefinitions) |->
                   LET ref == LaterDefinitions[i]
                   IN  [sev |-> "error", file |-> objects[ref[1]].filename,
                        msg |-> Duplicate(Sym(ref).name,
                                   objects[FirstDefinition(Sym(ref).name)[1]].filename)]]

\* X is defined twice in the first object and again in the second
C7_Witness ==
    /\ ExternalsBuilt
    /\ Len(LaterDefinitions) >= 2
    /\ \E i, j \in 1..Len(LaterDefinitions) :
           /\ LaterDefinitions[i][1] # LaterDefinitions[j][1]
           /\ Sym(LaterDefinitions[i]).name = Sym(LaterDefinitions[j]).name

\* the data of the section of the relocation processed last
LastData == objects[last.ref[1]].sections[last.ref[2]].data

\* C8: a relocation of a type in 1..32 that is not implemented, on a symbol
\* that resolves, ends the link with a fatal diagnostic that names the type,
\* and leaves the data of the section as it was
C8_UnimplementedIsFatal ==
    (last.outcome \notin {"none", "undefined"} /\ last.reltype \in Unimplemented) =>
        /\ pc = "fatal"
        /\ err.log[Len(err.log)].sev = "fatal"
        /\ err.log[Len(err.log)].msg = <<"unimplemented relocation", last.reltype>>
        /\ LastData = last.before

Fatal == \E i \in Log : err.log[i].sev = "fatal"

\* C9: once a fatal diagnostic is printed the link has stopped: nothing is
\* printed after it, no step follows, so no later relocation is applied, and
\* the HEX object was given nothing
C9_FatalStops ==
    Fatal =>
        /\ pc = "fatal"
        /\ err.log[Len(err.log)].sev = "fatal"
        /\ hex = <<>>
        /\ ~ENABLED NextLink

\* a fatal diagnostic at a relocation that has another after it
C9_Witness ==
    /\ pc = "fatal"
    /\ last.outcome = "fatal"
    /\ idx < Len(CodeRelocs)
    /\ last.ref = CodeRelocs[idx]

\* the placement of section ref failed
PlacementFailed(ref) ==
    \E i \in 1..Len(requests) :
        requests[i].section = ref /\ requests[i].address = None

\* C10: no error that is not fatal makes a later stage abort: the link is
\* never ended by an exception raised on a section whose placement failed
\* with 'No target memory available'
C10_ErrorsNeverAbort ==
    ~(pc = "crashed" /\ err.errors > 0 /\ PlacementFailed(crash.section))
(***************************************************************************)
(* The relocation engine.                                                  *)
(***************************************************************************)
\* the relocation processed last
LastRelocation ==
    objects[last.ref[1]].sections[last.ref[2]].relocations[last.ref[3]]

\* the word struct.unpack('=H', ...) reads at address
WordAt(data, address) == data[address + 1] + 256 * data[address + 2]

\* C11: after a relocation is applied the word read back at its address,
\* low byte first, is the value its patch function returned, and the data
\* keeps its length
C11_ReadBack ==
    last.outcome = "patched" =>
        /\ Len(LastData) = Len(last.before)
        /\ WordAt(LastData, LastRelocation.address) = last.word

\* a relocation on a negative value changed a word whose two bytes differ
C11_Witness ==
    /\ last.outcome = "patched"
    /\ last.value < 0
    /\ last.word # last.opcode
    /\ last.word \div 256 # last.word % 256

\* C12: every relocation that is patched in a code section is at an even
\* address
C12_EvenAddresses ==
    last.outcome = "patched" => LastRelocation.address % 2 = 0

(***************************************************************************)
(* _buildhex.                                                              *)
(***************************************************************************)
\* what the HEX object gets when every code and program data section is
\* given to it, in object then section order
WholeHex ==
    [i \in 1..Len(HexSections) |->
        [address |-> Sec(HexSections[i]).paddress, data |-> Sec(HexSections[i]).data]]

\* _buildhex was ended by an exception
BuildHexCrashed == pc = "crashed" /\ last.outcome # "crashed"

\* C14: _buildhex gives the HEX object one (paddress, data) for every code
\* or program data section, in object then section order, and nothing else;
\* the sections whose placement failed are given like the others
C14_HexOfEverySection ==
    /\ Len(hex) <= Len(HexSections)
    /\ \A i \in 1..Len(hex) : hex[i] = WholeHex[i]
    /\ pc = "done" => hex = WholeHex
    /\ ~BuildHexCrashed

(***************************************************************************)
(* The symbol a relocation is patched with.                                *)
(***************************************************************************)
\* the symbol table entry the relocation processed last refers to
LastOwn == objects[last.ref[1]].symbols[LastRelocation.symbol]

\* the value a relocation r has when it is resolved to the symbol symref
ValueOf(symref, r) ==
    LET section == Sec(<<symref[1], Sym(symref).section>>)
    IN  Sym(symref).value + r.offset
            + (IF isabsolute(section) THEN 0 ELSE section.paddress)

\* external definitions of the name are found in more than one object
SeveralObjectsDefine(name) ==
    \E i, j \in 1..Len(Definitions) :
        /\ Sym(Definitions[i]).name = name /\ Sym(Definitions[j]).name = name
        /\ Definitions[i][1] # Definitions[j][1]

\* C24 as claimed: when several objects define the external symbol X, every
\* patched relocation on an external symbol X has the value of the first
\* definition of X in input order, also in an object with a later definition
C24_FirstDefinitionAlways ==
    (/\ last.outcome = "patched"
     /\ isexternal(LastOwn)
     /\ SeveralObjectsDefine(LastOwn.name)) =>
        last.value = ValueOf(FirstDefinition(LastOwn.name), LastRelocation)

\* C24: when several objects define the external symbol X, a patched
\* relocation whose own entry for X is undefined has the value of the first
\* definition of X in input order, also when its object holds a later
\* definition of X; a relocation whose own entry is a definition of X has
\* the value of that entry
C24_FirstDefinitionWhenUndefined ==
    (/\ last.outcome = "patched"
     /\ isexternal(LastOwn)
     /\ SeveralObjectsDefine(LastOwn.name)) =>
        IF isdefined(LastOwn)
        THEN last.value = ValueOf(<<last.ref[1], LastRelocation.symbol>>, LastRelocation)
        ELSE last.value = ValueOf(FirstDefinition(LastOwn.name), LastRelocation)

\* a relocation of the second object, on an undefined entry for X, was
\* patched with the first object's X although the second object has its own
\* definition of X, of another value
C24_Witness ==
    /\ last.outcome = "patched"
    /\ last.ref[1] = 2
    /\ isexternal(LastOwn) /\ ~isdefined(LastOwn) /\ LastOwn.name = "X"
    /\ FirstDefinition("X")[1] = 1
    /\ \E k \in 1..Len(objects[2].symbols) :
           /\ isexternal(objects[2].symbols[k]) /\ isdefined(objects[2].symbols[k])
           /\ objects[2].symbols[k].name = "X"
           /\ ValueOf(<<2, k>>, LastRelocation) # last.value
    /\ last.value = ValueOf(FirstDefinition("X"), LastRelocation)

(***************************************************************************)
(* The effective value of a relocation.                                    *)
(***************************************************************************)
\* the paddress the placement stage left in section ref: the address its
\* allocation returned; for an absolute section the declared address; 0 for
\* a relocatable section whose allocation returned none
PlacedAt(ref, paddress) ==
    \E i \in 1..Len(requests) :
        /\ requests[i].section = ref
        /\ \/ requests[i].mode = "pinned" /\ paddress = requests[i].before
           \/ requests[i].mode # "pinned" /\ requests[i].address # None
                  /\ paddress = requests[i].address
           \/ requests[i].mode = "free" /\ requests[i].address = None
                  /\ paddress = 0

\* C25: the value of every patched relocation is sym.value + r.offset, plus
\* the paddress of the section of sym exactly when that section has no ABS
\* flag; sym is the relocation's own entry when its section number is above
\* 0, else the entry the external index has under the same name; the
\* paddress is the one the placement stage left
C25_EffectiveValue ==
    last.outcome = "patched" =>
        LET r == LastRelocation
            own == objects[last.ref[1]].symbols[r.symbol]
            symref == IF own.section > 0 THEN <<last.ref[1], r.symbol>>
                      ELSE externals[own.name]
            sym == objects[symref[1]].symbols[symref[2]]
            section == objects[symref[1]].sections[sym.section]
        IN  /\ own.section > 0 \/ own.name \in DOMAIN externals
            /\ sym.name = own.name
            /\ sym.section > 0
            /\ PlacedAt(<<symref[1], sym.section>>, section.paddress)
            /\ last.value = sym.value + r.offset
                   + (IF "ABS" \in section.flags THEN 0 ELSE section.paddress)

\* a relocation of the first object, with an offset, on a name defined in
\* the second object only, in a section placed above address 0
C25_Witness ==
    /\ last.outcome = "patched"
    /\ last.ref[1] = 1
    /\ LastRelocation.offset # 0
    /\ ~isdefined(LastOwn)
    /\ externals[LastOwn.name][1] = 2
    /\ Sec(<<2, Sym(externals[LastOwn.name]).section>>).paddress > 0
    /\ last.value = Sym(externals[LastOwn.name]).value + LastRelocation.offset
                        + Sec(<<2, Sym(externals[LastOwn.name]).section>>).paddress

(***************************************************************************)
(* Relative branches.                                                      *)
(***************************************************************************)
\* the section of the relocation processed last
LastSection == objects[last.ref[1]].sections[last.ref[2]]

\* the distance in words from the instruction after the patched one to the
\* value, rounded towards zero
WordOffset ==
    LET d == last.value - (LastSection.paddress + LastRelocation.address) - 2
    IN  IF d >= 0 THEN d \div 2 ELSE -((-d) \div 2)

\* the errors printed at the position of the relocation processed last
ErrorsAtLast ==
    {i \in 1..Len(err.log) :
        /\ err.log[i].sev = "error"
        /\ "section" \in DOMAIN err.log[i]
        /\ err.log[i].file = objects[last.ref[1]].filename
        /\ err.log[i].section = LastSection.name
        /\ err.log[i].offset = LastRelocation.address}

\* C26: for a relocation of type 19 or 20 that was processed, when the word
\* offset is outside -1024..1023 (type 19) or -128..127 (type 20) one error
\* is printed at its position, the last of the log, the link goes on and
\* the data is as before; else nothing is printed and the word is the
\* opcode or-ed with the offset modulo 2048 (type 19) or 256 (type 20)
C26_BranchRange ==
    (last.outcome = "patched" /\ last.reltype \in {19, 20}) =>
        LET lo == IF last.reltype = 19 THEN -1024 ELSE -128
            hi == IF last.reltype = 19 THEN 1023 ELSE 127
            bits == IF last.reltype = 19 THEN 2048 ELSE 256
        IN  IF WordOffset < lo \/ WordOffset > hi
            THEN /\ Cardinality(ErrorsAtLast) = 1
                 /\ Len(err.log) \in ErrorsAtLast
                 /\ pc = "relocations"
                 /\ last.word = last.opcode
                 /\ LastData = last.before
            ELSE /\ ErrorsAtLast = {}
                 /\ last.word = BitOr(last.opcode, WordOffset % bits)
                 /\ WordAt(LastData, LastRelocation.address) = last.word

\* a conditional branch of more than 128 words backwards, on a word that is
\* not zero, was refused with one error and the word left as it was
C26_Witness ==
    /\ last.outcome = "patched" /\ last.reltype = 20
    /\ WordOffset < -128
    /\ last.word = last.opcode /\ last.opcode # 0
    /\ Cardinality(ErrorsAtLast) = 1

(***************************************************************************)
(* The global error counter.                                               *)
(***************************************************************************)
\* how many of the diagnostics printed so far are errors
ErrorsPrinted(log) == Cardinality({i \in 1..Len(log) : log[i].sev = "error"})

\* C27: the error counter is at every moment the number of error
\* diagnostics printed so far (warnings, notes and fatal diagnostics do not
\* count), and no step takes a diagnostic back or lowers the counter: a step
\* raises it by the number of errors it prints
C27_ErrorCounter ==
    /\ [](err.errors = ErrorsPrinted(err.log))
    /\ [][/\ Len(err'.log) >= Len(err.log)
          /\ SubSeq(err'.log, 1, Len(err.log)) = err.log
          /\ err'.errors >= err.errors
          /\ err'.errors - err.errors
                 = ErrorsPrinted(SubSeq(err'.log, Len(err.log) + 1, Len(err'.log)))]_vars

\* a link that ran to its end after a processor mismatch warning and one
\* error for a section without memory
C27_Witness ==
    /\ pc = "done"
    /\ err.errors = 1
    /\ \E i \in 1..Len(err.log) : err.log[i].sev = "warning"
    /\ \E i \in 1..Len(err.log) :
           err.log[i].sev = "error"
           /\ err.log[i].msg[1] = "No target memory available for section"

(***************************************************************************)
(* What each stage of the link changes.                                    *)
(***************************************************************************)
\* the sections of the objects, before and after a step
SectionBefore(ref) == objects[ref[1]].sections[ref[2]]
SectionAfter(ref) == objects'[ref[1]].sections[ref[2]]

\* a step changes nothing of a section but the field
OnlyChanges(ref, field) ==
    \A f \in DOMAIN SectionBefore(ref) :
        f # field => SectionAfter(ref)[f] = SectionBefore(ref)[f]

\* a step keeps the objects and their sections in number, and everything of
\* an object that is not a section
SameShape ==
    /\ Len(objects') = Len(objects)
    /\ \A o \in 1..Len(objects) :
           /\ Len(objects'[o].sections) = Len(objects[o].sections)
           /\ \A f \in DOMAIN objects[o] :
                  f # "sections" => objects'[o][f] = objects[o][f]

\* a step of _allocsections: of the objects it changes at most the paddress
\* of sections that are not absolute; the external index is not touched
PlacementFrame ==
    /\ SameShape
    /\ \A i \in 1..Len(AllSections) :
           /\ OnlyChanges(AllSections[i], "paddress")
           /\ isabsolute(SectionBefore(AllSections[i])) =>
                  SectionAfter(AllSections[i]) = SectionBefore(AllSections[i])
    /\ externals' = externals

\* a step of _getexternals: no object and no allocator changes
ExternalsFrame ==
    /\ objects' = objects
    /\ codemem' = codemem /\ datamem' = datamem

\* a step of _applyrelocations: of the objects it changes at most the data
\* of code sections, which keep their length; no paddress, no allocator,
\* and the external index is not touched
RelocationFrame ==
    /\ SameShape
    /\ \A i \in 1..Len(AllSections) :
           /\ OnlyChanges(AllSections[i], "data")
           /\ Len(SectionAfter(AllSections[i]).data)
                  = Len(SectionBefore(AllSections[i]).data)
           /\ ~iscode(SectionBefore(AllSections[i])) =>
                  SectionAfter(AllSections[i]) = SectionBefore(AllSections[i])
    /\ externals' = externals
    /\ codemem' = codemem /\ datamem' = datamem

\* a step of _buildhex: nothing of the above changes
HexFrame ==
    /\ objects' = objects
    /\ externals' = externals
    /\ codemem' = codemem /\ datamem' = datamem

\* C28: every step of the placement changes only free lists and the
\* paddress of sections that are not absolute; every step of the external
\* index leaves the objects; every step of the relocation changes only the
\* data of code sections, byte for byte; every step of the HEX emission
\* leaves objects, allocators and external index
C28_StageFrames ==
    [][/\ pc \in {"allocsections", "absolute", "access", "relocatable"} => PlacementFrame
       /\ pc = "externals" => ExternalsFrame
       /\ pc = "relocations" => RelocationFrame
       /\ pc = "buildhex" => HexFrame]_vars

\* a link that ran to its end: the placement moved the code section from
\* its declared address, a relocation changed its data, and a program data
\* section with a relocation of its own went to the HEX object as it was
C28_Witness ==
    /\ pc = "done"
    /\ Len(hex) = 2
    /\ last.outcome = "patched" /\ LastData # last.before
    /\ externals # <<>>
    /\ \E i \in 1..Len(requests) :
           /\ requests[i].address # None /\ requests[i].address # requests[i].before
           /\ requests[i].section = <<last.ref[1], last.ref[2]>>
    /\ \E i \in 1..Len(AllSections) :
           /\ isprogramdata(Sec(AllSections[i]))
           /\ Sec(AllSections[i]).relocations # <<>>
           /\ Sec(AllSections[i]).data = Zeroes(Len(Sec(AllSections[i]).data))

(***************************************************************************)
(* The addresses given to the HEX object.                                  *)
(***************************************************************************)
\* the addresses entry i of the HEX object covers
HexBytes(i) == hex[i].address..(hex[i].address + Len(hex[i].data) - 1)

\* C29: when a link has run to its end with no error printed, no two of
\* the sections given to the HEX object have an address in common
C29_HexDisjoint ==
    (pc = "done" /\ err.errors = 0) =>
        \A i, j \in 1..Len(hex) : i # j => HexBytes(i) \cap HexBytes(j) = {}

(***************************************************************************)
(* The relocation type codes.                                              *)
(***************************************************************************)
\* every section has an address and the relocation processed last has its
\* two bytes within the data
LastWellPlaced ==
    /\ \A i \in 1..Len(AllSections) : Sec(AllSections[i]).paddress # None
    /\ LastRelocation.address + 2 <= Len(last.before)

\* C30: a relocation of any type code, on a symbol that resolves, in placed
\* sections and within the data, either patches the word or ends the link
\* with a fatal diagnostic that names the code
C30_EveryTypePatchesOrFatal ==
    (last.outcome \notin {"none", "undefined"} /\ LastWellPlaced) =>
        \/ last.outcome = "patched"
        \/ /\ last.outcome = "fatal"
           /\ pc = "fatal"
           /\ err.log[Len(err.log)].sev = "fatal"
           /\ err.log[Len(err.log)].msg = <<"unimplemented relocation", last.reltype>>

(***************************************************************************)
(* The decoder.                                                            *)
(***************************************************************************)
TypesOf(flags) == flags \cap SectionTypes

\* C13: readcoff makes a section only of a header with exactly one of TEXT,
\* BSS and DATA_ROM, and a file it reads to the end has only such headers
C13_ExactlyOneType ==
    /\ \A k \in 1..Len(coffobj.sections) :
           Cardinality(TypesOf(coffobj.sections[k].flags)) = 1
    /\ coffobj.state = "read" =>
           \A k \in 1..Len(stream) : Cardinality(TypesOf(stream[k].flags)) = 1

(***************************************************************************)
(* The placer, request by request.                                         *)
(***************************************************************************)
Requests == 1..Len(requests)

\* C16: the paddress of a section with the ABS flag is the one it had when
\* its pinned allocation was made, the declared one, whether the allocation
\* returned an address or none; and every such section is placed by a
\* pinned allocation
C16_AbsoluteKeepsAddress ==
    /\ \A i \in Requests :
           isabsolute(Sec(requests[i].section)) =>
               /\ requests[i].mode = "pinned"
               /\ Sec(requests[i].section).paddress = requests[i].before
    /\ Returned =>
           \A k \in 1..Len(AllSections) :
               isabsolute(Sec(AllSections[k])) =>
                   \E i \in Requests : requests[i].section = AllSections[k]

\* placement is over; one absolute section declared above 0 was placed and
\* another was not
C16_Witness ==
    /\ Returned
    /\ \E i, j \in Requests :
           /\ requests[i].mode = "pinned" /\ requests[i].address = None
           /\ requests[i].before > 0
           /\ requests[j].mode = "pinned" /\ requests[j].address # None
           /\ requests[j].before > 0

\* the wave of a request and the wave a section belongs to
Wave(mode) == CASE mode = "pinned" -> 1 [] mode = "bounded" -> 2 [] mode = "free" -> 3
WaveOf(s) == IF isabsolute(s) THEN 1 ELSE IF isaccess(s) THEN 2 ELSE 3

\* object input order, then section order
Before(a, b) == a[1] < b[1] \/ (a[1] = b[1] /\ a[2] < b[2])

\* C17: in a run of _allocsections every pinned request comes before every
\* bounded one and every bounded one before every free-fit one; within a
\* wave the requests follow object then section order; a section is asked
\* for once, in the wave of its flags, ABS before ACCESS
C17_ThreeWaves ==
    /\ \A i, j \in 1..Len(Current) : i < j =>
           /\ Wave(Current[i].mode) <= Wave(Current[j].mode)
           /\ Current[i].section # Current[j].section
           /\ Current[i].mode = Current[j].mode =>
                  Before(Current[i].section, Current[j].section)
    /\ \A i \in 1..Len(Current) :
           Wave(Current[i].mode) = WaveOf(Sec(Current[i].section))
    /\ Returned => Len(Current) = Len(AllSections)

\* three sections given as relocatable, access bank, absolute were asked
\* for in the opposite order, the absolute one of the second object first
C17_Witness ==
    /\ Returned
    /\ Len(Current) = 3
    /\ Current[1].section = <<2, 2>> /\ Current[1].mode = "pinned"
    /\ Current[2].section = <<2, 1>> /\ Current[2].mode = "bounded"
    /\ Current[3].section = <<1, 1>> /\ Current[3].mode = "free"

\* the 'No target memory available' errors printed for section ref
NoMemoryErrors(ref) ==
    {i \in 1..Len(err.log) :
        /\ err.log[i].sev = "error"
        /\ err.log[i].file = objects[ref[1]].filename
        /\ err.log[i].msg = NoMemory(Sec(ref))}

\* C22: in the first run of _allocsections, an access-bank section whose
\* bounded allocation returned none has the paddress it had before the
\* allocation, and exactly one 'No target memory available' error was
\* printed for it
C22_AccessFailureKeepsAddress ==
    run = 1 =>
        \A i \in Requests :
            (requests[i].mode = "bounded" /\ requests[i].address = None) =>
                /\ Sec(requests[i].section).paddress = requests[i].before
                /\ Cardinality(NoMemoryErrors(requests[i].section)) = 1

\* C23: every alloc call for a section with TEXT or DATA_ROM is made on the
\* code allocator and every call for a BSS section on the data allocator,
\* whichever of the three loops makes it
C23_AllocatorOfType ==
    \A i \in Requests :
        LET s == Sec(requests[i].section)
        IN  /\ (iscode(s) \/ isprogramdata(s)) => requests[i].allocator = "code"
            /\ isudata(s) => requests[i].allocator = "data"

(***************************************************************************)
(* The allocator, call by call.                                            *)
(***************************************************************************)
\* C15 as claimed: every call, of any size from 0, returns the same from the
\* allocator that merges adjacent runs as from the source allocator
C15_MergingEquivalent == lastcall.merged = lastcall.address

\* C15: as long as no allocation of size 0 has been granted, every call
\* returns the same from the allocator that merges adjacent runs as from the
\* source allocator, and the two free lists are the same
C15_MergingEquivalentFromOne ==
    (\A i \in 1..Len(granted) : granted[i].size >= 1) =>
        /\ lastcall.merged = lastcall.address
        /\ merged = mem

\* three calls of sizes from 1 were granted, the last from a free list of
\* two runs
C15_Witness ==
    /\ Len(granted) = 3
    /\ \A i \in 1..3 : granted[i].size >= 1
    /\ lastcall.address # None
    /\ Len(mem) >= 2

\* byte b was handed out by a call that returned an address
HandedOut(b) ==
    \E i \in 1..Len(granted) :
        granted[i].address <= b /\ b < granted[i].address + granted[i].size

\* the interval [start, start + size) lies within the memory and holds no
\* byte handed out
IntervalFree(start, size) ==
    /\ 0 <= start /\ start + size <= Capacity
    /\ \A b \in start..(start + size - 1) : ~HandedOut(b)

\* every allocation granted so far has at least one byte
NoEmptyGrant == \A i \in 1..Len(granted) : granted[i].size >= 1

\* C18 as claimed: in every state of the allocator a pinned alloc(size,
\* start), for any size from 0, returns start when [start, start + size) is
\* within the memory and free of handed out bytes, and none otherwise
C18_PinnedExactly ==
    \A size \in Sizes, start \in Addresses :
        LET r == alloc(mem, size, start, None)
        IN  /\ r.address \in {start, None}
            /\ r.address = start <=> IntervalFree(start, size)

\* C18: the same for sizes from 1, as long as no allocation of size 0 has
\* been granted
C18_PinnedExactlyFromOne ==
    NoEmptyGrant =>
        \A size \in Sizes \ {0}, start \in Addresses :
            LET r == alloc(mem, size, start, None)
            IN  /\ r.address \in {start, None}
                /\ r.address = start <=> IntervalFree(start, size)

\* a pinned call was refused for an interval within the memory that
\* overlaps an allocation granted before, all sizes from 1
C18_Witness ==
    /\ NoEmptyGrant
    /\ granted # <<>>
    /\ lastcall.mode = "pinned" /\ lastcall.address = None /\ lastcall.size >= 1
    /\ \E start \in Addresses :
           /\ start + lastcall.size <= Capacity
           /\ HandedOut(start)
           /\ alloc(mem, lastcall.size, start, None).address = None

\* the runs of the free list that a free-fit call of the size can use
Qualifying(size) == {k \in 1..Len(mem) : mem[k].size >= size}

\* C19: in every state of the allocator a free-fit alloc(size) returns the
\* start of the first run of the free list with at least size bytes and
\* replaces it by the run (start + size, run.size - size); that start is the
\* lowest among the runs with at least size bytes; it returns none, and
\* leaves the list, only when every run is smaller
C19_FirstFit ==
    \A size \in Sizes :
        LET r == alloc(mem, size, None, None)
        IN  IF Qualifying(size) = {}
            THEN r.address = None /\ r.freemem = mem
            ELSE LET i == MinOf(Qualifying(size))
                 IN  /\ r.address = mem[i].start
                     /\ r.freemem = [mem EXCEPT ![i] =
                            FreeMemory(mem[i].start + size, mem[i].size - size)]
                     /\ \A k \in Qualifying(size) : r.address <= mem[k].start

\* a free-fit call took its bytes from the second run because the first
\* was too small; a call of the same size would now be refused
C19_Witness ==
    /\ lastcall.mode = "free" /\ lastcall.address # None /\ lastcall.size >= 2
    /\ Len(mem) >= 2
    /\ mem[1].size = 1 /\ mem[1].start < lastcall.address
    /\ mem[2].start = lastcall.address + lastcall.size
    /\ Qualifying(2) = {}

\* the part of run k within [start, end), as intersection gives it
Within(k, start, end) == intersection(mem[k], FreeMemory(start, end - start))

\* C20: in every state of the allocator a bounded alloc(size, start, end)
\* that returns a base b has start <= b and b + size <= end, b is the base
\* of the part within [start, end) of the first run where that part has at
\* least size bytes, and the free total drops by size; it returns none when
\* no run has such a part
C20_BoundedWithin ==
    \A size \in Sizes, start \in Addresses, end \in Addresses :
        LET r == alloc(mem, size, start, end)
            fits == {k \in 1..Len(mem) :
                        Within(k, start, end) # <<>>
                        /\ Within(k, start, end)[1].size >= size}
        IN  IF fits = {} THEN r.address = None
            ELSE /\ r.address = Within(MinOf(fits), start, end)[1].start
                 /\ start <= r.address /\ r.address + size <= end
                 /\ SumSizes(r.freemem) = SumSizes(mem) - size

\* a bounded call was granted bytes in the middle of the memory, leaving a
\* run below and a run above
C20_Witness ==
    /\ lastcall.mode = "bounded" /\ lastcall.address > 0 /\ lastcall.size >= 1
    /\ \E i \in 1..(Len(mem) - 1) :
           /\ mem[i].size > 0 /\ mem[i + 1].size > 0
           /\ mem[i].start + mem[i].size = lastcall.address
           /\ mem[i + 1].start = lastcall.address + lastcall.size

\* an absent argument of alloc, or an address
MaybeAddresses == Addresses \cup {None}

\* C21: in every state of the allocator, an alloc call that returns none,
\* whatever its size and whichever of start and end are given, leaves the
\* free list exactly as it was
C21_RefusedLeavesList ==
    \A size \in Sizes, start \in MaybeAddresses, end \in MaybeAddresses :
        LET r == alloc(mem, size, start, end)
        IN  r.address = None => r.freemem = mem

\* a call was refused although the free list, in two runs or more, holds
\* at least as many bytes as were asked; a call in each mode would be refused
C21_Witness ==
    /\ lastcall.address = None /\ lastcall.size >= 1
    /\ Len(mem) >= 2 /\ lastcall.size <= SumSizes(mem)
    /\ alloc(mem, lastcall.size, None, None).address = None
    /\ \E start \in Addresses :
           /\ contains_start(mem[1], FreeMemory(start, lastcall.size))
           /\ alloc(mem, lastcall.size, start, None).address = None
           /\ alloc(mem, lastcall.size, start, Capacity).address = None
====
